---- MODULE Spec2Model ----
(***************************************************************************)
(* A model of the two scanners of the repository:                          *)
(*   network_scanner.py        scan_port / scan_host / scan_network        *)
(*   sql_injection_scanner.py  detect_sql_error / test_payload / scan_url  *)
(* Both fan probes out over a ThreadPoolExecutor and collect the futures   *)
(* with as_completed.  A task is one submitted future: a host for the      *)
(* network scanner, a (parameter, payload) test case for the SQL scanner.  *)
(***************************************************************************)
EXTENDS Integers, Sequences, FiniteSets, TLC

(* ------------------------------ bounds --------------------------------- *)
\* largest worker count tried (0 is tried too: the executor refuses it)
MaxWorkers == 2
\* largest number of host addresses in the scanned network
MaxHosts == 2
\* largest number of chunks a response body is assembled from
MaxChunks == 2
\* largest number of test_payload calls started on one params mapping
MaxCalls == 2

None == "None"

(* ------------------------- network scanner inputs ---------------------- *)
\* Port lists given with -p: empty, single, several, a repeated port, and a
\* port outside 0..65535 (main only checks that each entry is an integer).
PortLists ==
    { <<>>, <<80>>, <<22, 80>>, <<80, 80>>, <<70000>>, <<80, 70000>> }

\* socket.connect_ex checks the port before connecting
ValidPort(p) == p \in 0..65535

\* values connect_ex returns: 0, ECONNREFUSED, EAGAIN (timed out)
ConnectResults == {0, 111, 11}

(* ------------------------------ state ---------------------------------- *)
VARIABLES
    prog,           \* "net" | "url" | "detect": which program runs
    args,           \* which command-line arguments are well formed
    max_workers,    \* the -w argument
    ports,          \* net: the port list
    query,          \* url: the query string, a sequence of [name, value]
    params,         \* url: parse_qs(query), in insertion order
    test_cases,     \* url: the (param_name, payload) test cases
    pc,             \* the main thread's position
    session,        \* url: "none" | "open" | "closed"
    nthreads,       \* worker threads the executor has spawned
    fut,            \* task -> "new" | "pending" | "running" | "finished"
    outcome,        \* task -> [exc, value]: what the future holds
    hpc,            \* task -> the worker's position inside the probe
    idx,            \* net: task -> position in ports (1-based)
    open_ports,     \* net: task -> scan_host's open_ports list
    sock,           \* net: task -> sockets created and not closed
    call,           \* net: task -> the last scan_port call
    established,    \* net: task -> ports whose connection was established
    sent,           \* url: task -> requests issued on the session
    test_params,    \* url: task -> the call's own copy of params
    test_url,       \* url: task -> the query of the URL it requested
    yielded,        \* futures as_completed has yielded
    collected,      \* the values future.result() returned, in arrival order
    results,        \* the list the scan returns
    vulnerabilities_found,  \* url: the vulnerable results
    deadline_exceeded,      \* the caller's deadline for the batch has passed
    response,       \* detect: what the GET of the call gave: [exc, text]
    scan_result     \* detect: what the call returned

vars == << prog, args, test_params, test_url, max_workers, ports, query, params, test_cases, pc, session,
           nthreads, fut, outcome, hpc, idx, open_ports, sock, call,
           established, sent, yielded, collected, results,
           vulnerabilities_found, deadline_exceeded, response,
           scan_result >>

Tasks == DOMAIN fut

NoOutcome == [exc |-> None, value |-> <<>>]
\* a scan_port call: the port, the connection attempts made, how the attempt
\* ended ("code": connect_ex returned code; "socket_error": socket.error was
\* raised; "other_error": another exception was raised) and the returned tuple
NoCall == [port |-> 0, attempts |-> 0, how |-> None, code |-> -1, ret |-> <<>>]

Running == { i \in Tasks : fut[i] = "running" }
Finished == { i \in Tasks : fut[i] = "finished" }


(* --------------------------- the executor ------------------------------ *)
\* submit() spawns a worker thread unless max_workers threads exist already
\* (AdjustThreadCountUnbounded: a pool that spawns one thread per task)
AdjustThreadCountUnbounded(n) == n + 1

AdjustThreadCount(n) == IF n < max_workers THEN n + 1 ELSE n

\* the work queue is first in, first out: the pending task submitted first
NextPending == CHOOSE i \in Tasks :
                  /\ fut[i] = "pending"
                  /\ \A j \in Tasks : fut[j] = "pending" => i <= j

\* a worker thread is free and task i is at the head of the work queue
\* (CanDispatchWhenIdle: a pool that starts a task only when none runs)
CanDispatchWhenIdle(i) ==
    /\ pc \in {"submit", "collect", "shutdown"}
    /\ fut[i] = "pending"
    /\ i = NextPending
    /\ Running = {}

CanDispatch(i) ==
    /\ pc \in {"submit", "collect", "shutdown"}
    /\ fut[i] = "pending"
    /\ i = NextPending
    /\ Cardinality(Running) < nthreads

\* the next task the dict comprehension submits
NextNew == CHOOSE i \in Tasks :
              /\ fut[i] = "new"
              /\ \A j \in Tasks : fut[j] = "new" => i <= j

\* executor.submit(...) for the next descriptor; the comprehension ends, and
\* as_completed starts, after the last one
Submit ==
    /\ pc = "submit"
    /\ LET i == NextNew IN
         /\ fut' = [fut EXCEPT ![i] = "pending"]
         /\ nthreads' = AdjustThreadCount(nthreads)
         /\ pc' = IF \A j \in Tasks \ {i} : fut[j] /= "new"
                  THEN "collect" ELSE "submit"

\* as_completed(futures) yields a future once it is done, whatever its
\* place in the submission order
\* (CanYieldInOrder: the futures taken in submission order)
CanYieldInOrder(i) ==
    /\ fut[i] = "finished"
    /\ i \notin yielded
    /\ \A j \in Tasks : j < i => j \in yielded

CanYield(i) ==
    /\ fut[i] = "finished"
    /\ i \notin yielded

\* future.result() of a future that ended without an exception
\* (FutureResultStale: the value of the future that finished first in
\* submission order, whichever future was yielded)
FutureResultStale(i) ==
    outcome[CHOOSE j \in Tasks :
               /\ outcome[j].value /= <<>>
               /\ \A m \in Tasks : outcome[m].value /= <<>> => j <= m].value[1]

FutureResult(i) == outcome[i].value[1]

\* leaving the with block after future.result() raised: shutdown(wait=True)
\* lets every submitted task run to its end, then the exception propagates
Shutdown ==
    /\ pc = "shutdown"
    /\ Finished = Tasks
    /\ pc' = "raised"
    /\ UNCHANGED << prog, args, test_params, test_url, max_workers, ports, query, params, test_cases,
                    session, nthreads, fut, outcome, hpc, idx, open_ports,
                    sock, call, established, sent, yielded, collected,
                    results, vulnerabilities_found, deadline_exceeded,
                    response, scan_result >>

\* the wall clock passes the deadline the caller had for the whole batch
DeadlineExceeded ==
    /\ pc \in {"submit", "collect"}
    /\ ~deadline_exceeded
    /\ deadline_exceeded' = TRUE
    /\ UNCHANGED << prog, args, test_params, test_url, max_workers, ports, query, params, test_cases, pc,
                    session, nthreads, fut, outcome, hpc, idx, open_ports,
                    sock, call, established, sent, yielded, collected,
                    results, vulnerabilities_found, response,
                    scan_result >>

(* ------------------------------- main ---------------------------------- *)
\* args says what the checks of main find: ports_ok, every entry of -p is an
\* integer; network_ok, ipaddress.ip_network accepts the network; url_ok,
\* urlparse finds a scheme in the URL.
ArgsOk == [ports_ok |-> TRUE, network_ok |-> TRUE, url_ok |-> TRUE]

\* the checks main makes before it starts the scan
\* (ValidatedSkipped: main without them)
ValidatedSkipped(a) == TRUE

Validated(a) ==
    IF prog = "net" THEN a.ports_ok /\ a.network_ok ELSE a.url_ok

\* network_scanner.py main: parse the ports, validate the network; on an
\* error print it and return, otherwise call scan_network
NetMain ==
    /\ prog = "net"
    /\ pc = "main"
    /\ pc' = IF Validated(args) THEN "start" ELSE "invalid"
    /\ UNCHANGED << prog, args, test_params, test_url, max_workers, ports, query, params, test_cases,
                    session, nthreads, fut, outcome, hpc, idx, open_ports,
                    sock, call, established, sent, yielded, collected,
                    results, vulnerabilities_found, deadline_exceeded,
                    response, scan_result >>

\* sql_injection_scanner.py main: a URL without a scheme is reported and
\* main returns, otherwise the scanner is constructed
UrlMain ==
    /\ prog = "url"
    /\ pc = "main"
    /\ pc' = IF Validated(args) THEN "start" ELSE "invalid"
    /\ UNCHANGED << prog, args, test_params, test_url, max_workers, ports, query, params, test_cases,
                    session, nthreads, fut, outcome, hpc, idx, open_ports,
                    sock, call, established, sent, yielded, collected,
                    results, vulnerabilities_found, deadline_exceeded,
                    response, scan_result >>

(* ------------------------- network_scanner.py -------------------------- *)
\* result == 0  (IsOpenNotRefused: only a refusal counts as closed)
IsOpenNotRefused(result) == result /= 111

IsOpen(result) == result = 0

\* scan_host's return value  (HostSummaryAlwaysAlive: is_alive set to True)
HostSummaryAlwaysAlive(host, ops) ==
    [host |-> host, open_ports |-> ops, is_alive |-> TRUE]

HostSummary(host, ops) ==
    [host |-> host, open_ports |-> ops, is_alive |-> Len(ops) > 0]

\* scan_network up to the creation of the executor
ScanNetwork ==
    /\ prog = "net"
    /\ pc = "start"
    /\ pc' = IF max_workers <= 0 THEN "raised"
             ELSE IF Tasks = {} THEN "collect" ELSE "submit"
    /\ UNCHANGED << prog, args, test_params, test_url, max_workers, ports, query, params, test_cases,
                    session, nthreads, fut, outcome, hpc, idx, open_ports,
                    sock, call, established, sent, yielded, collected,
                    results, vulnerabilities_found, deadline_exceeded,
                    response, scan_result >>

NetSubmit ==
    /\ prog = "net"
    /\ Submit
    /\ UNCHANGED << prog, args, test_params, test_url, max_workers, ports, query, params, test_cases,
                    session, outcome, hpc, idx, open_ports, sock, call,
                    established, sent, yielded, collected, results,
                    vulnerabilities_found, deadline_exceeded, response,
                    scan_result >>

\* a worker takes scan_host(host, ports, timeout) from the queue
ScanHostStart(i) ==
    /\ prog = "net"
    /\ CanDispatch(i)
    /\ fut' = [fut EXCEPT ![i] = "running"]
    /\ hpc' = [hpc EXCEPT ![i] = "loop"]
    /\ idx' = [idx EXCEPT ![i] = 1]
    /\ open_ports' = [open_ports EXCEPT ![i] = <<>>]
    /\ UNCHANGED << prog, args, test_params, test_url, max_workers, ports, query, params, test_cases, pc,
                    session, nthreads, outcome, sock, call, established,
                    sent, yielded, collected, results,
                    vulnerabilities_found, deadline_exceeded, response,
                    scan_result >>

\* scan_port: socket.socket(...) and settimeout.  Creating the socket may
\* fail with OSError (no descriptor left): socket.error is caught and
\* scan_port returns (host, port, False).
ScanPortSocket(i) ==
    /\ prog = "net"
    /\ fut[i] = "running"
    /\ hpc[i] = "loop"
    /\ idx[i] <= Len(ports)
    /\ LET port == ports[idx[i]] IN
         \/ /\ sock' = [sock EXCEPT ![i] = @ + 1]
            /\ hpc' = [hpc EXCEPT ![i] = "sock"]
            /\ call' = [call EXCEPT ![i] =
                   [port |-> port, attempts |-> 1, how |-> None,
                    code |-> -1, ret |-> <<>>]]
            /\ UNCHANGED idx
         \/ /\ call' = [call EXCEPT ![i] =
                   [port |-> port, attempts |-> 1, how |-> "socket_error",
                    code |-> -1, ret |-> <<i, port, FALSE>>]]
            /\ idx' = [idx EXCEPT ![i] = @ + 1]
            /\ UNCHANGED << sock, hpc >>
    /\ UNCHANGED << prog, args, test_params, test_url, max_workers, ports, query, params, test_cases, pc,
                    session, nthreads, fut, outcome, open_ports, established,
                    sent, yielded, collected, results,
                    vulnerabilities_found, deadline_exceeded, response,
                    scan_result >>

\* scan_host: open_ports.append(port)
\* (PrependPort: open_ports.insert(0, port))
PrependPort(ops, port) == << port >> \o ops

AppendPort(ops, port) == Append(ops, port)

\* scan_port: connect_ex, close, return; then scan_host's append.  A port
\* outside 0..65535 makes connect_ex raise OverflowError, which is not a
\* socket.error: it leaves scan_port and scan_host and ends the future.
ScanPortConnect(i) ==
    /\ prog = "net"
    /\ fut[i] = "running"
    /\ hpc[i] = "sock"
    /\ LET port == ports[idx[i]] IN
         IF ValidPort(port)
         THEN \E result \in ConnectResults :
                /\ sock' = [sock EXCEPT ![i] = @ - 1]
                /\ call' = [call EXCEPT ![i] =
                       [@ EXCEPT !.how = "code", !.code = result,
                                 !.ret = <<i, port, IsOpen(result)>>]]
                /\ open_ports' = [open_ports EXCEPT ![i] =
                       IF IsOpen(result) THEN AppendPort(@, port) ELSE @]
                /\ established' = [established EXCEPT ![i] =
                       IF result = 0 THEN @ \cup {port} ELSE @]
                /\ idx' = [idx EXCEPT ![i] = @ + 1]
                /\ hpc' = [hpc EXCEPT ![i] = "loop"]
                /\ UNCHANGED << fut, outcome >>
         ELSE /\ call' = [call EXCEPT ![i] = [@ EXCEPT !.how = "other_error"]]
              /\ fut' = [fut EXCEPT ![i] = "finished"]
              /\ outcome' = [outcome EXCEPT ![i] =
                     [exc |-> "OverflowError", value |-> <<>>]]
              /\ hpc' = [hpc EXCEPT ![i] = "done"]
              /\ UNCHANGED << sock, open_ports, established, idx >>
    /\ UNCHANGED << prog, args, test_params, test_url, max_workers, ports, query, params, test_cases, pc,
                    session, nthreads, sent, yielded, collected, results,
                    vulnerabilities_found, deadline_exceeded, response,
                    scan_result >>

\* scan_host returns its summary once the loop over ports has ended
ScanHostReturn(i) ==
    /\ prog = "net"
    /\ fut[i] = "running"
    /\ hpc[i] = "loop"
    /\ idx[i] > Len(ports)
    /\ fut' = [fut EXCEPT ![i] = "finished"]
    /\ outcome' = [outcome EXCEPT ![i] =
           [exc |-> None, value |-> << HostSummary(i, open_ports[i]) >>]]
    /\ hpc' = [hpc EXCEPT ![i] = "done"]
    /\ UNCHANGED << prog, args, test_params, test_url, max_workers, ports, query, params, test_cases, pc,
                    session, nthreads, idx, open_ports, sock, call,
                    established, sent, yielded, collected, results,
                    vulnerabilities_found, deadline_exceeded, response,
                    scan_result >>

\* whether scan_network keeps a summary: "if result['is_alive']"
\* (KeepsAll: the test left out)
KeepsAll(result) == TRUE

Keeps(result) == result.is_alive

\* one turn of "for future in as_completed(...)": future.result() either
\* raises what the task raised, or returns the summary
NetCollect(i) ==
    /\ prog = "net"
    /\ pc = "collect"
    /\ CanYield(i)
    /\ yielded' = yielded \cup {i}
    /\ IF outcome[i].exc /= None
       THEN /\ pc' = "shutdown"
            /\ UNCHANGED << collected, results >>
       ELSE LET result == FutureResult(i) IN
            /\ collected' = Append(collected, result)
            /\ results' = IF Keeps(result) THEN Append(results, result)
                           ELSE results
            /\ UNCHANGED pc
    /\ UNCHANGED << prog, args, test_params, test_url, max_workers, ports, query, params, test_cases,
                    session, nthreads, fut, outcome, hpc, idx, open_ports,
                    sock, call, established, sent, vulnerabilities_found,
                    deadline_exceeded, response, scan_result >>

\* as_completed is exhausted: the with block ends and results is returned
NetReturn ==
    /\ prog = "net"
    /\ pc = "collect"
    /\ yielded = Tasks
    /\ pc' = "returned"
    /\ UNCHANGED << prog, args, test_params, test_url, max_workers, ports, query, params, test_cases,
                    session, nthreads, fut, outcome, hpc, idx, open_ports,
                    sock, call, established, sent, yielded, collected,
                    results, vulnerabilities_found, deadline_exceeded,
                    response, scan_result >>

NoTasks == [i \in {} |-> None]

InitCommon ==
    /\ max_workers \in 0..MaxWorkers
    /\ pc = "main"
    /\ nthreads = 0
    /\ yielded = {}
    /\ collected = <<>>
    /\ results = <<>>
    /\ vulnerabilities_found = <<>>
    /\ deadline_exceeded = FALSE
    /\ response = [exc |-> FALSE, text |-> <<>>]
    /\ scan_result = <<>>

\* one task per address of network_obj.hosts(): the addresses are distinct
\* (no ports are parsed from a malformed -p, no hosts come from a malformed
\* network)
InitNet ==
    /\ prog = "net"
    /\ InitCommon
    /\ args \in [ports_ok : BOOLEAN, network_ok : BOOLEAN, url_ok : {TRUE}]
    /\ ports \in IF args.ports_ok THEN PortLists ELSE { <<>> }
    /\ query = <<>>
    /\ params = <<>>
    /\ test_cases = <<>>
    /\ session = "none"
    /\ \E nhosts \in IF args.network_ok THEN 0..MaxHosts ELSE {0} :
         /\ fut = [i \in 1..nhosts |-> "new"]
         /\ outcome = [i \in 1..nhosts |-> NoOutcome]
         /\ hpc = [i \in 1..nhosts |-> "idle"]
         /\ idx = [i \in 1..nhosts |-> 0]
         /\ open_ports = [i \in 1..nhosts |-> <<>>]
         /\ sock = [i \in 1..nhosts |-> 0]
         /\ call = [i \in 1..nhosts |-> NoCall]
         /\ established = [i \in 1..nhosts |-> {}]
         /\ sent = [i \in 1..nhosts |-> 0]
         /\ test_params = [i \in 1..nhosts |-> <<>>]
         /\ test_url = [i \in 1..nhosts |-> <<>>]

NextNet ==
    \/ NetMain
    \/ ScanNetwork
    \/ NetSubmit
    \/ \E i \in Tasks : ScanHostStart(i)
    \/ \E i \in Tasks : ScanPortSocket(i)
    \/ \E i \in Tasks : ScanPortConnect(i)
    \/ \E i \in Tasks : ScanHostReturn(i)
    \/ \E i \in Tasks : NetCollect(i)
    \/ NetReturn
    \/ Shutdown
    \/ DeadlineExceeded

SpecNet == InitNet /\ [][NextNet]_vars

(* ---------------------- sql_injection_scanner.py ----------------------- *)
\* Strings the scanner inspects are sequences of one-character strings.
PAYLOADS == << "'", "' OR 1=1--", "' UNION SELECT 1--", "'; DROP TABLE users--" >>

\* the signature table, in declaration order (a dict keeps insertion order)
SQL_ERRORS == <<
    [db_type |-> "mysql",
     errors |-> <<
            <<"m", "y", "s", "q", "l">>,
            <<"s", "q", "l", " ", "s", "y", "n", "t", "a", "x">>,
            <<"m", "y", "s", "q", "l", "_", "f", "e", "t", "c", "h">> >>],
    [db_type |-> "postgresql",
     errors |-> <<
            <<"p", "o", "s", "t", "g", "r", "e", "s", "q", "l">>,
            <<"p", "g", "_", "q", "u", "e", "r", "y">>,
            <<"p", "g", "_", "e", "x", "e", "c">> >>],
    [db_type |-> "sqlite",
     errors |-> <<
            <<"s", "q", "l", "i", "t", "e">>,
            <<"s", "q", "l", "i", "t", "e", "3">> >>],
    [db_type |-> "mssql",
     errors |-> <<
            <<"s", "q", "l", " ", "s", "e", "r", "v", "e", "r">>,
            <<"m", "i", "c", "r", "o", "s", "o", "f", "t", " ", "o", "l", "e", " ", "d", "b">>,
            <<"o", "d", "b", "c">> >>],
    [db_type |-> "oracle",
     errors |-> <<
            <<"o", "r", "a", "c", "l", "e">>,
            <<"o", "r", "a", "-">>,
            <<"o", "c", "i", "_">> >>],
    [db_type |-> "generic",
     errors |-> <<
            <<"u", "n", "c", "l", "o", "s", "e", "d", " ", "q", "u", "o", "t", "a", "t", "i", "o", "n">>,
            <<"q", "u", "o", "t", "e", "d", " ", "s", "t", "r", "i", "n", "g", " ", "n", "o", "t", " ", "p", "r", "o", "p", "e", "r", "l", "y", " ", "t", "e", "r", "m", "i", "n", "a", "t", "e", "d">>,
            <<"s", "y", "n", "t", "a", "x", " ", "e", "r", "r", "o", "r">> >>] >>

UpperCase == <<"A", "B", "C", "D", "E", "F", "G", "H", "I", "J", "K", "L", "M", "N", "O", "P", "Q", "R", "S", "T", "U", "V", "W", "X", "Y", "Z">>

LowerCase == <<"a", "b", "c", "d", "e", "f", "g", "h", "i", "j", "k", "l", "m", "n", "o", "p", "q", "r", "s", "t", "u", "v", "w", "x", "y", "z">>

\* str.lower(), character by character
LowerChar(c) ==
    IF \E k \in 1..Len(UpperCase) : UpperCase[k] = c
    THEN LowerCase[CHOOSE k \in 1..Len(UpperCase) : UpperCase[k] = c]
    ELSE c

Lower(text) == [k \in 1..Len(text) |-> LowerChar(text[k])]

\* "error in text_lower": error occurs in text as a contiguous substring
Contains(text, error) ==
    \E k \in 0..(Len(text) - Len(error)) :
        SubSeq(text, k + 1, k + Len(error)) = error

\* the two nested loops of detect_sql_error, from engine d and signature e on
RECURSIVE DetectFrom(_, _, _)
DetectFrom(text_lower, d, e) ==
    IF d > Len(SQL_ERRORS) THEN None
    ELSE IF e > Len(SQL_ERRORS[d].errors) THEN DetectFrom(text_lower, d + 1, 1)
    ELSE IF Contains(text_lower, SQL_ERRORS[d].errors[e])
         THEN SQL_ERRORS[d].db_type
         ELSE DetectFrom(text_lower, d, e + 1)

\* detect_sql_error without the lower-casing of the body
DetectSqlErrorCaseSensitive(response_text_) == DetectFrom(response_text_, 1, 1)

DetectSqlError(response_text_) == DetectFrom(Lower(response_text_), 1, 1)

\* "if error_type:"
Truthy(x) == x /= None /\ x /= ""

\* test_payload's result for the response the GET gave: resp.exc says that
\* the request raised, resp.text is the body otherwise
\* (ScanResultTimedFailure: the except branch passing a response time too)
ScanResultTimedFailure(param_name, payload, resp) ==
    IF resp.exc
    THEN [vulnerable |-> FALSE, payload |-> payload, parameter |-> param_name,
          error_type |-> None, response_time |-> "elapsed"]
    ELSE LET error_type == DetectSqlError(resp.text) IN
         IF Truthy(error_type)
         THEN [vulnerable |-> TRUE, payload |-> payload,
               parameter |-> param_name, error_type |-> error_type,
               response_time |-> "elapsed"]
         ELSE [vulnerable |-> FALSE, payload |-> payload,
               parameter |-> param_name, error_type |-> None,
               response_time |-> "elapsed"]

ScanResult(param_name, payload, resp) ==
    IF resp.exc
    THEN [vulnerable |-> FALSE, payload |-> payload, parameter |-> param_name,
          error_type |-> None, response_time |-> None]
    ELSE LET error_type == DetectSqlError(resp.text) IN
         IF Truthy(error_type)
         THEN [vulnerable |-> TRUE, payload |-> payload,
               parameter |-> param_name, error_type |-> error_type,
               response_time |-> "elapsed"]
         ELSE [vulnerable |-> FALSE, payload |-> payload,
               parameter |-> param_name, error_type |-> None,
               response_time |-> "elapsed"]

(* response bodies: up to MaxChunks chunks, concatenated *)
Chunks == {
    <<"S", "Q", "L", " ", "s", "y", "n", "t", "a", "x">>,
    <<"O", "R", "A", "-">>,
    <<"o", "k">>,
    <<"p", "g", "_", "q", "u", "e", "r", "y">>,
    <<"s", "y", "n", "t", "a", "x", " ", "e", "r", "r", "o", "r">>,
    <<"M", "y">>,
    <<"S", "Q", "L">>,
    <<"S", "Q", "L", "i", "t", "e">>,
    <<" ", "S", "e", "r", "v", "e", "r">>,
    <<"O", "D", "B", "C">> }

RECURSIVE BodiesOf(_)
BodiesOf(n) ==
    IF n = 0 THEN { <<>> }
    ELSE LET shorter == BodiesOf(n - 1) IN
         shorter \cup { b \o c : b \in shorter, c \in Chunks }

Bodies == BodiesOf(MaxChunks)

\* what a GET of the batch may give: an exception, a clean body, an error page
Responses ==
    { [exc |-> TRUE, text |-> <<>>],
      [exc |-> FALSE, text |-> <<"o", "k">>],
      [exc |-> FALSE, text |-> <<"S", "Q", "L", " ", "s", "y", "n", "t", "a", "x">>] }

\* Query strings given on the command line, as (name, value) pairs: none, one
\* parameter (id or q), a repeated parameter, and parameters with a blank
\* value (parse_qs drops those).
Queries ==
    { <<>>,
      << [name |-> "id", value |-> "1"] >>,
      << [name |-> "id", value |-> "1"], [name |-> "id", value |-> "2"] >>,
      << [name |-> "q", value |-> ""] >>,
      << [name |-> "q", value |-> "x"] >>,
      << [name |-> "id", value |-> "1"], [name |-> "q", value |-> ""] >> }

\* parse_qs: a mapping name -> list of values, in order of first occurrence,
\* kept here as a sequence of [name, values]
RECURSIVE ParseQsFrom(_, _, _)
ParseQsFrom(q, k, acc) ==
    IF k > Len(q) THEN acc
    ELSE LET pair == q[k] IN
         IF pair.value = "" THEN ParseQsFrom(q, k + 1, acc)
         ELSE IF \E m \in 1..Len(acc) : acc[m].name = pair.name
         THEN ParseQsFrom(q, k + 1,
                [m \in 1..Len(acc) |->
                    IF acc[m].name = pair.name
                    THEN [acc[m] EXCEPT !.values = Append(@, pair.value)]
                    ELSE acc[m]])
         ELSE ParseQsFrom(q, k + 1,
                Append(acc, [name |-> pair.name, values |-> << pair.value >>]))

ParseQs(q) == ParseQsFrom(q, 1, <<>>)

\* the test cases, parameter by parameter and payload by payload
TestCases(ps) ==
    [k \in 1..(Len(ps) * Len(PAYLOADS)) |->
        [param_name |-> ps[((k - 1) \div Len(PAYLOADS)) + 1].name,
         payload |-> PAYLOADS[((k - 1) % Len(PAYLOADS)) + 1]]]

\* main: the scanner, and with it the session, is constructed
MainScanner ==
    /\ prog = "url"
    /\ pc = "start"
    /\ session' = "open"
    /\ pc' = "scan"
    /\ UNCHANGED << prog, args, test_params, test_url, max_workers, ports, query, params, test_cases,
                    nthreads, fut, outcome, hpc, idx, open_ports, sock, call,
                    established, sent, yielded, collected, results,
                    vulnerabilities_found, deadline_exceeded, response,
                    scan_result >>

\* scan_url up to the creation of the executor
ScanUrl ==
    /\ prog = "url"
    /\ pc = "scan"
    /\ IF query = <<>>
       THEN /\ pc' = "returned"
            /\ UNCHANGED << params, test_cases, fut, outcome, hpc, idx,
                            open_ports, sock, call, established, sent,
                            test_params, test_url >>
       ELSE LET ps == ParseQs(query)
                tcs == TestCases(ps)
                n == Len(tcs)
            IN  /\ params' = ps
                /\ test_cases' = tcs
                /\ fut' = [i \in 1..n |-> "new"]
                /\ outcome' = [i \in 1..n |-> NoOutcome]
                /\ hpc' = [i \in 1..n |-> "idle"]
                /\ idx' = [i \in 1..n |-> 0]
                /\ open_ports' = [i \in 1..n |-> <<>>]
                /\ sock' = [i \in 1..n |-> 0]
                /\ call' = [i \in 1..n |-> NoCall]
                /\ established' = [i \in 1..n |-> {}]
                /\ sent' = [i \in 1..n |-> 0]
                /\ test_params' = [i \in 1..n |-> <<>>]
                /\ test_url' = [i \in 1..n |-> <<>>]
                /\ pc' = IF max_workers <= 0 THEN "raised"
                         ELSE IF n = 0 THEN "collect" ELSE "submit"
    /\ UNCHANGED << prog, args, max_workers, ports, query, session, nthreads,
                    yielded, collected, results, vulnerabilities_found,
                    deadline_exceeded, response, scan_result >>

UrlSubmit ==
    /\ prog = "url"
    /\ Submit
    /\ UNCHANGED << prog, args, test_params, test_url, max_workers, ports, query, params, test_cases,
                    session, outcome, hpc, idx, open_ports, sock, call,
                    established, sent, yielded, collected, results,
                    vulnerabilities_found, deadline_exceeded, response,
                    scan_result >>

\* dict item assignment d[name] = vals: the value of an existing key is
\* replaced in place, a new key goes last
SetItem(d, name, vals) ==
    IF \E k \in 1..Len(d) : d[k].name = name
    THEN [k \in 1..Len(d) |->
            IF d[k].name = name THEN [name |-> name, values |-> vals]
            ELSE d[k]]
    ELSE Append(d, [name |-> name, values |-> vals])

\* urlencode(d, doseq=True): one name=value pair per value, key by key
RECURSIVE UrlEncodeFrom(_, _, _, _)
UrlEncodeFrom(d, k, v, acc) ==
    IF k > Len(d) THEN acc
    ELSE IF v > Len(d[k].values) THEN UrlEncodeFrom(d, k + 1, 1, acc)
    ELSE UrlEncodeFrom(d, k, v + 1,
            Append(acc, [name |-> d[k].name, value |-> d[k].values[v]]))

UrlEncode(d) == UrlEncodeFrom(d, 1, 1, <<>>)

\* what "test_params[param_name] = [payload]" does to the params mapping
\* the calls share: nothing, test_params being a copy of it
\* (SharedAfterSetItemAliased: test_params = params, without the copy)
SharedAfterSetItemAliased(ps, name, vals) == SetItem(ps, name, vals)

SharedAfterSetItem(ps, name, vals) == ps

\* a worker takes test_payload(...) from the queue: test_params = params.copy()
TestPayloadStart(i) ==
    /\ prog = "url"
    /\ CanDispatch(i)
    /\ fut' = [fut EXCEPT ![i] = "running"]
    /\ hpc' = [hpc EXCEPT ![i] = "copied"]
    /\ test_params' = [test_params EXCEPT ![i] = params]
    /\ UNCHANGED << prog, args, test_url, max_workers, ports, query, params,
                    test_cases, pc, session, nthreads, outcome, idx,
                    open_ports, sock, call, established, sent, yielded,
                    collected, results, vulnerabilities_found,
                    deadline_exceeded, response, scan_result >>

\* test_params[param_name] = [payload]
TestPayloadSetItem(i) ==
    /\ prog = "url"
    /\ fut[i] = "running"
    /\ hpc[i] = "copied"
    /\ hpc' = [hpc EXCEPT ![i] = "set"]
    /\ test_params' = [test_params EXCEPT ![i] =
                          SetItem(@, test_cases[i].param_name,
                                  << test_cases[i].payload >>)]
    /\ params' = SharedAfterSetItem(params, test_cases[i].param_name,
                                    << test_cases[i].payload >>)
    /\ UNCHANGED << prog, args, test_url, max_workers, ports, query,
                    test_cases, pc, session, nthreads, fut, outcome, idx,
                    open_ports, sock, call, established, sent, yielded,
                    collected, results, vulnerabilities_found,
                    deadline_exceeded, response, scan_result >>

\* the test URL is built from urlencode(test_params) and the GET is issued
\* on the shared session
TestPayloadRequest(i) ==
    /\ prog = "url"
    /\ fut[i] = "running"
    /\ hpc[i] = "set"
    /\ hpc' = [hpc EXCEPT ![i] = "request"]
    /\ test_url' = [test_url EXCEPT ![i] = UrlEncode(test_params[i])]
    /\ sent' = [sent EXCEPT ![i] = @ + 1]
    /\ UNCHANGED << prog, args, test_params, max_workers, ports, query,
                    params, test_cases, pc, session, nthreads, fut, outcome,
                    idx, open_ports, sock, call, established, yielded,
                    collected, results, vulnerabilities_found,
                    deadline_exceeded, response, scan_result >>

\* the GET ends, with a response or an exception, and test_payload returns
TestPayloadReturn(i) ==
    /\ prog = "url"
    /\ fut[i] = "running"
    /\ hpc[i] = "request"
    /\ \E resp \in Responses :
         outcome' = [outcome EXCEPT ![i] =
            [exc |-> None,
             value |-> << ScanResult(test_cases[i].param_name,
                                     test_cases[i].payload, resp) >>]]
    /\ fut' = [fut EXCEPT ![i] = "finished"]
    /\ hpc' = [hpc EXCEPT ![i] = "done"]
    /\ UNCHANGED << prog, args, test_params, test_url, max_workers, ports, query, params, test_cases, pc,
                    session, nthreads, idx, open_ports, sock, call,
                    established, sent, yielded, collected, results,
                    vulnerabilities_found, deadline_exceeded, response,
                    scan_result >>

\* "if result.vulnerable:" of the collection loop
\* (IsVulnerableOnError: taking a result for vulnerable unless it is a
\* timed, clean answer)
IsVulnerableOnError(result) ==
    result.vulnerable \/ result.response_time = None

IsVulnerable(result) == result.vulnerable

\* one turn of "for future in concurrent.futures.as_completed(...)"
UrlCollect(i) ==
    /\ prog = "url"
    /\ pc = "collect"
    /\ CanYield(i)
    /\ yielded' = yielded \cup {i}
    /\ IF outcome[i].exc /= None
       THEN /\ pc' = "shutdown"
            /\ UNCHANGED << collected, results, vulnerabilities_found >>
       ELSE LET result == FutureResult(i) IN
            /\ collected' = Append(collected, result)
            /\ results' = Append(results, result)
            /\ vulnerabilities_found' =
                  IF IsVulnerable(result)
                  THEN Append(vulnerabilities_found, result)
                  ELSE vulnerabilities_found
            /\ UNCHANGED pc
    /\ UNCHANGED << prog, args, test_params, test_url, max_workers, ports, query, params, test_cases,
                    session, nthreads, fut, outcome, hpc, idx, open_ports,
                    sock, call, established, sent, deadline_exceeded,
                    response, scan_result >>

\* as_completed is exhausted: the with block ends and results is returned
UrlReturn ==
    /\ prog = "url"
    /\ pc = "collect"
    /\ yielded = Tasks
    /\ pc' = "returned"
    /\ UNCHANGED << prog, args, test_params, test_url, max_workers, ports, query, params, test_cases,
                    session, nthreads, fut, outcome, hpc, idx, open_ports,
                    sock, call, established, sent, yielded, collected,
                    results, vulnerabilities_found, deadline_exceeded,
                    response, scan_result >>

\* whether main's "finally: scanner.close()" runs at this position: after
\* scan_url returned or raised  (ClosesEarly: also while it still collects)
ClosesEarly(p) == p \in {"returned", "raised", "collect"}

Closes(p) == p \in {"returned", "raised"}

\* main: scan_url has returned or raised; finally: scanner.close()
MainClose ==
    /\ prog = "url"
    /\ Closes(pc)
    /\ session' = "closed"
    /\ pc' = IF pc = "raised" THEN "exit_raised" ELSE "exit"
    /\ UNCHANGED << prog, args, test_params, test_url, max_workers, ports, query, params, test_cases,
                    nthreads, fut, outcome, hpc, idx, open_ports, sock, call,
                    established, sent, yielded, collected, results,
                    vulnerabilities_found, deadline_exceeded, response,
                    scan_result >>

InitUrl ==
    /\ prog = "url"
    /\ InitCommon
    /\ args \in [ports_ok : {TRUE}, network_ok : {TRUE}, url_ok : BOOLEAN]
    /\ ports = <<>>
    /\ query \in Queries
    /\ params = <<>>
    /\ test_cases = <<>>
    /\ session = "none"
    /\ fut = NoTasks
    /\ outcome = NoTasks
    /\ hpc = NoTasks
    /\ idx = NoTasks
    /\ open_ports = NoTasks
    /\ sock = NoTasks
    /\ call = NoTasks
    /\ established = NoTasks
    /\ sent = NoTasks
    /\ test_params = NoTasks
    /\ test_url = NoTasks

NextUrl ==
    \/ UrlMain
    \/ MainScanner
    \/ ScanUrl
    \/ UrlSubmit
    \/ \E i \in Tasks : TestPayloadStart(i)
    \/ \E i \in Tasks : TestPayloadSetItem(i)
    \/ \E i \in Tasks : TestPayloadRequest(i)
    \/ \E i \in Tasks : TestPayloadReturn(i)
    \/ \E i \in Tasks : UrlCollect(i)
    \/ UrlReturn
    \/ MainClose

\* the SQL scanner's own steps (the caller's clock is not among them)
SpecUrl == InitUrl /\ [][NextUrl]_vars

(* --------------- test_payload calls sharing one mapping ---------------- *)
\* Query strings with two parameters, one of them repeated
ParamQueries ==
    { << [name |-> "id", value |-> "1"], [name |-> "q", value |-> "x"] >>,
      << [name |-> "id", value |-> "1"], [name |-> "q", value |-> "x"],
         [name |-> "id", value |-> "2"] >> }

\* n of the test cases, in the order scan_url lists them
Selections(all, n) ==
    { [k \in 1..n |-> all[f[k]]] :
        f \in { g \in [1..n -> 1..Len(all)] :
                  \A a, b \in 1..n : a < b => g[a] < g[b] } }

\* scan_url has parsed the query and is about to submit up to MaxCalls of
\* its test cases, which all carry the same params mapping
InitParams ==
    /\ prog = "url"
    /\ args = ArgsOk
    /\ max_workers \in 1..MaxWorkers
    /\ pc = "submit"
    /\ nthreads = 0
    /\ yielded = {}
    /\ collected = <<>>
    /\ results = <<>>
    /\ vulnerabilities_found = <<>>
    /\ deadline_exceeded = FALSE
    /\ response = [exc |-> FALSE, text |-> <<>>]
    /\ scan_result = <<>>
    /\ ports = <<>>
    /\ query \in ParamQueries
    /\ params = ParseQs(query)
    /\ session = "open"
    /\ \E n \in 1..MaxCalls :
         /\ test_cases \in Selections(TestCases(params), n)
         /\ fut = [i \in 1..n |-> "new"]
         /\ outcome = [i \in 1..n |-> NoOutcome]
         /\ hpc = [i \in 1..n |-> "idle"]
         /\ idx = [i \in 1..n |-> 0]
         /\ open_ports = [i \in 1..n |-> <<>>]
         /\ sock = [i \in 1..n |-> 0]
         /\ call = [i \in 1..n |-> NoCall]
         /\ established = [i \in 1..n |-> {}]
         /\ sent = [i \in 1..n |-> 0]
         /\ test_params = [i \in 1..n |-> <<>>]
         /\ test_url = [i \in 1..n |-> <<>>]

NextParams ==
    \/ UrlSubmit
    \/ \E i \in Tasks : TestPayloadStart(i)
    \/ \E i \in Tasks : TestPayloadSetItem(i)
    \/ \E i \in Tasks : TestPayloadRequest(i)
    \/ \E i \in Tasks : TestPayloadReturn(i)

SpecParams == InitParams /\ [][NextParams]_vars

(* -------------------- one test_payload call, alone --------------------- *)
\* test_payload for one parameter and payload: the GET raises, or gives a body
TestPayload ==
    /\ prog = "detect"
    /\ pc = "start"
    /\ scan_result' = << ScanResult(test_cases[1].param_name,
                                    test_cases[1].payload, response) >>
    /\ pc' = "returned"
    /\ UNCHANGED << prog, args, test_params, test_url, max_workers, ports, query, params, test_cases,
                    session, nthreads, fut, outcome, hpc, idx, open_ports,
                    sock, call, established, sent, yielded, collected,
                    results, vulnerabilities_found, deadline_exceeded,
                    response >>

InitDetect ==
    /\ prog = "detect"
    /\ args = ArgsOk
    /\ max_workers = 1
    /\ pc = "start"
    /\ nthreads = 0
    /\ yielded = {}
    /\ collected = <<>>
    /\ results = <<>>
    /\ vulnerabilities_found = <<>>
    /\ deadline_exceeded = FALSE
    /\ response \in [exc : BOOLEAN, text : Bodies]
    /\ scan_result = <<>>
    /\ ports = <<>>
    /\ query = <<>>
    /\ params = <<>>
    /\ \E param_name \in {"id", "q"}, k \in 1..Len(PAYLOADS) :
         test_cases = << [param_name |-> param_name, payload |-> PAYLOADS[k]] >>
    /\ session = "open"
    /\ fut = NoTasks
    /\ outcome = NoTasks
    /\ hpc = NoTasks
    /\ idx = NoTasks
    /\ open_ports = NoTasks
    /\ sock = NoTasks
    /\ call = NoTasks
    /\ established = NoTasks
    /\ sent = NoTasks
    /\ test_params = NoTasks
    /\ test_url = NoTasks

NextDetect == TestPayload

SpecDetect == InitDetect /\ [][NextDetect]_vars

(* ----------------------------- both scanners --------------------------- *)
Init == InitNet \/ InitUrl

Next ==
    \/ NetMain
    \/ UrlMain
    \/ ScanNetwork
    \/ NetSubmit
    \/ \E i \in Tasks : ScanHostStart(i)
    \/ \E i \in Tasks : ScanPortSocket(i)
    \/ \E i \in Tasks : ScanPortConnect(i)
    \/ \E i \in Tasks : ScanHostReturn(i)
    \/ \E i \in Tasks : NetCollect(i)
    \/ NetReturn
    \/ MainScanner
    \/ ScanUrl
    \/ UrlSubmit
    \/ \E i \in Tasks : TestPayloadStart(i)
    \/ \E i \in Tasks : TestPayloadSetItem(i)
    \/ \E i \in Tasks : TestPayloadRequest(i)
    \/ \E i \in Tasks : TestPayloadReturn(i)
    \/ \E i \in Tasks : UrlCollect(i)
    \/ UrlReturn
    \/ MainClose
    \/ Shutdown
    \/ DeadlineExceeded

Spec == Init /\ [][Next]_vars

\* the threads keep being scheduled, and every GET ends (it has a timeout)
FairSpecUrl == SpecUrl /\ WF_vars(NextUrl)

\* the steps of both scanners, without the caller's clock
NextScan ==
    \/ NetMain
    \/ UrlMain
    \/ ScanNetwork
    \/ NetSubmit
    \/ \E i \in Tasks : ScanHostStart(i)
    \/ \E i \in Tasks : ScanPortSocket(i)
    \/ \E i \in Tasks : ScanPortConnect(i)
    \/ \E i \in Tasks : ScanHostReturn(i)
    \/ \E i \in Tasks : NetCollect(i)
    \/ NetReturn
    \/ MainScanner
    \/ ScanUrl
    \/ UrlSubmit
    \/ \E i \in Tasks : TestPayloadStart(i)
    \/ \E i \in Tasks : TestPayloadSetItem(i)
    \/ \E i \in Tasks : TestPayloadRequest(i)
    \/ \E i \in Tasks : TestPayloadReturn(i)
    \/ \E i \in Tasks : UrlCollect(i)
    \/ UrlReturn
    \/ MainClose
    \/ Shutdown

\* both scanners under fair scheduling: the main thread and the workers of
\* the pool keep taking steps while one is possible
FairSpec == Init /\ [][NextScan]_vars /\ WF_vars(NextScan)

(* ------------------------------ properties ----------------------------- *)
Range(seq) == { seq[k] : k \in 1..Len(seq) }

NoDuplicates(seq) ==
    \A k, m \in 1..Len(seq) : seq[k] = seq[m] => k = m

BatchEnded == pc \in {"returned", "raised", "exit", "exit_raised"}

Submitted == { i \in Tasks : fut[i] /= "new" }

\* the identifying fields of a descriptor and of a collected result
DescriptorId(i) ==
    IF prog = "net" THEN << i >>
    ELSE << test_cases[i].param_name, test_cases[i].payload >>

ResultId(result) ==
    IF prog = "net" THEN << result.host >>
    ELSE << result.parameter, result.payload >>

\* C1: when the batch has ended, every submitted descriptor has been probed
\* and exactly one result per descriptor has been collected: as many results
\* as descriptors, and each identity as often among the results as among the
\* descriptors.
C1_OneResultPerDescriptor ==
    BatchEnded =>
        /\ \A i \in Submitted : fut[i] = "finished"
        /\ Len(collected) = Cardinality(Submitted)
        /\ \A i \in Submitted :
              Cardinality({ k \in 1..Len(collected) :
                              ResultId(collected[k]) = DescriptorId(i) })
            = Cardinality({ j \in Submitted :
                              DescriptorId(j) = DescriptorId(i) })

\* C2: at most max_workers probe functions execute at the same time.
C2_BoundedConcurrency == Cardinality(Running) <= max_workers

\* C2 witness: every worker is busy while a descriptor still waits
C2_Witness ==
    /\ max_workers = MaxWorkers
    /\ Cardinality(Running) = max_workers
    /\ \E i \in Tasks : fut[i] = "pending"

\* C3: no probe failure ends its future with an exception, and none
\* propagates out of future.result() (which would leave the collection loop).
C3_FailureIsolated ==
    /\ \A i \in Tasks : outcome[i].exc = None
    /\ pc /= "shutdown"

C5_NoLingeringSocket ==
    \A i \in Tasks : hpc[i] /= "sock" => sock[i] = 0

\* C6: the list scan_network returns holds one summary for each host with an
\* established connection, none for any other host, no host twice, and each
\* summary's open_ports are exactly the ports of that host that were open.
C6_NetworkSummaries ==
    (prog = "net" /\ pc = "returned") =>
        /\ NoDuplicates([k \in 1..Len(results) |-> results[k].host])
        /\ { results[k].host : k \in 1..Len(results) }
             = { i \in Tasks : established[i] /= {} }
        /\ \A k \in 1..Len(results) :
              Range(results[k].open_ports) = established[results[k].host]

\* C6 witness: two hosts, one with 22 and 80 open and one with nothing open,
\* give one summary
C6_Witness ==
    /\ prog = "net" /\ pc = "returned"
    /\ Cardinality(Tasks) = 2
    /\ Len(results) = 1
    /\ results[1].open_ports = << 22, 80 >>
    /\ \E i \in Tasks : established[i] = {}

\* C7: no port is twice in the open_ports of a summary scan_host produced,
\* and no (parameter, payload) pair is twice in scan_url's results.
C7_NoDoubleCount ==
    /\ prog = "net" =>
         \A i \in Tasks :
            outcome[i].value /= <<>> =>
                NoDuplicates(outcome[i].value[1].open_ports)
    /\ prog = "url" =>
         NoDuplicates([k \in 1..Len(results) |->
                         << results[k].parameter, results[k].payload >>])

\* the engines one of whose signatures occurs in the lower-cased body
MatchingEngines(text) ==
    { d \in 1..Len(SQL_ERRORS) :
        \E e \in 1..Len(SQL_ERRORS[d].errors) :
            Contains(Lower(text), SQL_ERRORS[d].errors[e]) }

\* C8: for a response with a body, the category test_payload reports is the
\* engine declared first in SQL_ERRORS among those with a signature in the
\* lower-cased body, None exactly when there is none, and vulnerable is true
\* exactly when the category is not None.
C8_FirstMatchWins ==
    (prog = "detect" /\ scan_result /= <<>> /\ ~response.exc) =>
        LET hits == MatchingEngines(response.text)
            r == scan_result[1]
        IN  /\ r.error_type =
                 IF hits = {} THEN None
                 ELSE SQL_ERRORS[CHOOSE d \in hits :
                                    \A d2 \in hits : d <= d2].db_type
            /\ r.vulnerable = (r.error_type /= None)

\* C8 witness: the body "ORA-ODBC" matches mssql and oracle, in upper case
\* and oracle's signature first in the text; mssql, declared first, is reported
C8_Witness ==
    /\ prog = "detect" /\ scan_result /= <<>> /\ ~response.exc
    /\ response.text = << "O", "R", "A", "-", "O", "D", "B", "C" >>
    /\ MatchingEngines(response.text) = {4, 5}
    /\ scan_result[1].error_type = "mssql"
    /\ scan_result[1].vulnerable

\* C9: once the caller's deadline for the batch is exceeded, no further
\* descriptor is dispatched to a worker.
C9_DeadlineStopsDispatch ==
    [][deadline_exceeded =>
         \A i \in Tasks : fut[i] = "pending" => fut'[i] = "pending"]_vars

\* C10: once the scanner is constructed its session is eventually closed, on
\* the returning and on the raising path; it is never closed while a
\* test_payload probe is in flight, and no probe issues a request on it after
\* close().
C10_SessionReleased ==
    /\ [](session = "open" => <>(session = "closed"))
    /\ [](session = "closed" => Running = {})
    /\ [][session = "closed" => sent' = sent]_vars

\* C10 witness: the session is closed after a batch of finished probes
C10_Witness ==
    /\ session = "closed"
    /\ Tasks /= {}
    /\ Finished = Tasks
    /\ \A i \in Tasks : sent[i] = 1

Count(seq, v) == Cardinality({ k \in 1..Len(seq) : seq[k] = v })

\* what the probe function returned for each descriptor
ProbeValues ==
    { outcome[i].value[1] : i \in { j \in Tasks : outcome[j].value /= <<>> } }

\* C11: the multiset of results a scan returns is fixed by what the probe
\* function returned for each descriptor (for scan_network: the summaries of
\* the hosts that are alive), whatever the interleaving and the worker count,
\* so two runs in which the probes answer alike return the same multiset.
C11_ResultsDetermined ==
    pc \in {"returned", "exit"} =>
        \A v \in ProbeValues \cup Range(results) :
            Count(results, v) =
                Cardinality({ i \in Tasks :
                                /\ outcome[i].value = << v >>
                                /\ (prog = "url" \/ v.is_alive) })

\* C11 witness: a returned scan whose results arrived in another order than
\* they were submitted, some vulnerable and some not
C11_Witness ==
    /\ prog = "url" /\ pc = "returned"
    /\ Len(results) = Len(PAYLOADS)
    /\ results[1].payload = PAYLOADS[Len(PAYLOADS)]
    /\ \E k, m \in 1..Len(results) :
          results[k].vulnerable /\ ~results[m].vulnerable

\* C12: in every summary scan_host produced, is_alive is true exactly when
\* open_ports is not empty, and a summary is never changed once it is
\* returned: neither in its future nor in the list scan_network builds.
C12_SummaryAliveFixed ==
    /\ [](prog = "net" =>
            /\ \A i \in Tasks :
                  outcome[i].value /= <<>> =>
                      outcome[i].value[1].is_alive
                          = (outcome[i].value[1].open_ports /= <<>>)
            /\ \A k \in 1..Len(results) :
                  results[k].is_alive = (results[k].open_ports /= <<>>))
    /\ [][prog = "net" =>
            /\ \A i \in Tasks :
                  outcome[i].value /= <<>> => outcome'[i] = outcome[i]
            /\ Len(results') >= Len(results)
            /\ \A k \in 1..Len(results) : results'[k] = results[k]]_vars

\* C12 witness: an alive summary is in the returned list, and a summary with
\* no open port has been collected too
C12_Witness ==
    /\ prog = "net" /\ pc = "returned"
    /\ Len(results) = 1
    /\ results[1].is_alive /\ results[1].open_ports /= <<>>
    /\ \E i \in yielded :
          /\ ~outcome[i].value[1].is_alive
          /\ outcome[i].value[1].open_ports = <<>>

ArgsWellFormed == args.ports_ok /\ args.network_ok /\ args.url_ok

ProbeStarted == \E i \in Tasks : fut[i] /= "new" \/ hpc[i] /= "idle"

\* C13: with a malformed port list, network or URL, main reports and returns
\* before anything else: no scanner is constructed, no descriptor submitted
\* and no probe started; and whenever a probe has started, the arguments had
\* passed main's checks.
C13_ValidationFirst ==
    /\ ~ArgsWellFormed =>
          /\ pc \in {"main", "invalid"}
          /\ ~ProbeStarted
          /\ session = "none"
    /\ ProbeStarted => ArgsWellFormed /\ pc \notin {"main", "invalid"}

\* C13 witness: main has returned on a URL without a scheme that does carry
\* a query parameter
C13_Witness ==
    /\ prog = "url" /\ pc = "invalid"
    /\ ~args.url_ok
    /\ ParseQs(query) /= <<>>
    /\ ~ProbeStarted

\* C14: in the as_completed loop a finished probe can be collected at once,
\* whichever earlier-submitted probes are still running, and with two or
\* more workers one running probe does not keep the next pending descriptor
\* from being dispatched.
C14_CompletionOrder ==
    /\ \A i \in Tasks :
          (pc = "collect" /\ fut[i] = "finished" /\ i \notin yielded) =>
              ENABLED (NetCollect(i) \/ UrlCollect(i))
    /\ ( /\ max_workers >= 2
         /\ pc \in {"submit", "collect"}
         /\ Cardinality(Running) <= 1
         /\ \E i \in Tasks : fut[i] = "pending" ) =>
              ENABLED (ScanHostStart(NextPending)
                       \/ TestPayloadStart(NextPending))

\* C14 witness: the result of a later-submitted probe has been collected
\* while an earlier-submitted probe is still running
C14_Witness ==
    /\ max_workers >= 2
    /\ pc = "collect"
    /\ \E i, j \in Tasks :
          /\ i < j
          /\ fut[i] = "running"
          /\ j \in yielded
          /\ outcome[j].exc = None
          /\ collected = << outcome[j].value[1] >>

\* no submitted descriptor waits for a worker
NoneWaiting == \A i \in Tasks : fut[i] /= "pending"

\* C15: whenever a submitted descriptor waits and fewer than max_workers
\* probes are in flight, the start of the next waiting descriptor is
\* enabled; a worker always takes the descriptor submitted first among the
\* waiting ones; a waiting descriptor stays waiting until it is started; and
\* under fair scheduling there comes a point after which no descriptor
\* waits, so that every submitted descriptor is eventually started.
C15_WorkConserving ==
    /\ []( ( /\ \E i \in Tasks : fut[i] = "pending"
             /\ Cardinality(Running) < max_workers ) =>
               ENABLED (ScanHostStart(NextPending)
                        \/ TestPayloadStart(NextPending)) )
    /\ [][ \A i \in Tasks :
              /\ (fut[i] = "pending" /\ fut'[i] = "running") =>
                    \A j \in Tasks : j < i => fut[j] \in {"running", "finished"}
              /\ fut[i] = "pending" => fut'[i] \in {"pending", "running"}
              /\ fut[i] \in {"running", "finished"} =>
                    fut'[i] \in {"running", "finished"}
         ]_vars
    /\ <>[]NoneWaiting

\* C15 witness: a probe has completed with a failure, the worker it freed
\* has taken the next waiting descriptor, and another one still waits
C15_Witness ==
    /\ max_workers >= 2
    /\ \E i, j, k \in Tasks :
          /\ fut[i] = "finished"
          /\ fut[j] = "running" /\ j > max_workers
          /\ fut[k] = "pending"
          /\ Cardinality(Running) = max_workers

\* C16: for every positive max_workers, scan_network and scan_url leave the
\* collection loop only by returning, and only after as many results as
\* there are descriptors have been collected.
C16_LoopEndsAfterAll ==
    (max_workers > 0 /\ pc \notin {"main", "invalid", "start", "scan",
                                   "submit", "collect"}) =>
        /\ pc \in {"returned", "exit"}
        /\ Len(collected) = Cardinality(Tasks)

\* the mapping a call is to send: the original one with the values of the
\* parameter under test replaced by the single payload
Replaced(orig, tc) ==
    [k \in 1..Len(orig) |->
        IF orig[k].name = tc.param_name
        THEN [name |-> orig[k].name, values |-> << tc.payload >>]
        ELSE orig[k]]

Payloads == Range(PAYLOADS)

\* C17: while test_payload calls run concurrently on one params mapping, the
\* mapping stays what parse_qs made of the query, every call requests the
\* original parameters with only the one under test replaced by its single
\* payload, and no request carries the payload of another call.
C17_SharedParamsUntouched ==
    (prog = "url" /\ Tasks /= {}) =>
        /\ params = ParseQs(query)
        /\ \A i \in Tasks :
              hpc[i] \in {"request", "done"} =>
                 /\ test_url[i] =
                       UrlEncode(Replaced(ParseQs(query), test_cases[i]))
                 /\ \A k \in 1..Len(test_url[i]) :
                       test_url[i][k].value \in Payloads =>
                          /\ test_url[i][k].value = test_cases[i].payload
                          /\ test_url[i][k].name = test_cases[i].param_name

\* C17 witness: one call has sent its request while another call, testing
\* the other parameter, sits between its copy and its request
C17_Witness ==
    /\ prog = "url"
    /\ Len(params) = 2
    /\ \E i, j \in Tasks :
          /\ hpc[i] = "request"
          /\ hpc[j] = "set"
          /\ test_cases[i].param_name /= test_cases[j].param_name
          /\ Len(test_url[i]) = 3

HasVulnerableFlag(r) == r.vulnerable

\* C18: throughout scan_url, vulnerabilities_found is the subsequence of
\* results with the vulnerable flag set, in arrival order, and when scan_url
\* returns, results holds as many entries as the combinations it announced
\* (the length of test_cases).
C18_VulnerableSubsequence ==
    prog = "url" =>
        /\ vulnerabilities_found = SelectSeq(results, HasVulnerableFlag)
        /\ \A k \in 1..Len(vulnerabilities_found) :
              vulnerabilities_found[k].vulnerable
        /\ pc \in {"returned", "exit"} => Len(results) = Len(test_cases)

\* C18 witness: scan_url has returned four results, of which the second and
\* the fourth, a failed request among the others, are the vulnerable ones
C18_Witness ==
    /\ prog = "url"
    /\ pc = "returned"
    /\ Len(results) = Len(PAYLOADS)
    /\ ~results[1].vulnerable /\ results[1].response_time = None
    /\ results[2].vulnerable
    /\ ~results[3].vulnerable
    /\ results[4].vulnerable
    /\ vulnerabilities_found = << results[2], results[4] >>

\* a is b with some of its entries left out
RECURSIVE IsSubsequence(_, _)
IsSubsequence(a, b) ==
    IF a = <<>> THEN TRUE
    ELSE IF b = <<>> THEN FALSE
    ELSE IF Head(a) = Head(b) THEN IsSubsequence(Tail(a), Tail(b))
    ELSE IsSubsequence(a, Tail(b))

\* the ports scan_host has finished probing for task i
Probed(i) ==
    IF idx[i] <= 1 THEN <<>> ELSE SubSeq(ports, 1, idx[i] - 1)

\* C19: a host has at most one socket of scan_port at a time, the port
\* being probed is the one at the loop's position in the port list, the
\* position advances one port at a time, and open_ports (also in the summary
\* returned) is a subsequence, in input order, of the ports probed so far.
C19_PortsInOrder ==
    /\ [](prog = "net" =>
            \A i \in Tasks :
               /\ sock[i] <= 1
               /\ hpc[i] = "sock" => call[i].port = ports[idx[i]]
               /\ IsSubsequence(open_ports[i], Probed(i))
               /\ (fut[i] = "finished" /\ outcome[i].exc = None) =>
                     /\ idx[i] = Len(ports) + 1
                     /\ outcome[i].value[1].open_ports = open_ports[i])
    /\ [][prog = "net" =>
            \A i \in Tasks :
               /\ idx'[i] \in {idx[i], idx[i] + 1}
               /\ idx'[i] /= idx[i] => hpc'[i] = "loop"
               /\ Len(open_ports'[i]) >= Len(open_ports[i])
               /\ \A k \in 1..Len(open_ports[i]) :
                     open_ports'[i][k] = open_ports[i][k]
         ]_vars

\* C19 witness: one host has found both ports of the list open, in list
\* order, while the probe of another host is in flight
C19_Witness ==
    /\ prog = "net"
    /\ ports = << 22, 80 >>
    /\ \E i, j \in Tasks :
          /\ open_ports[i] = << 22, 80 >>
          /\ hpc[j] = "sock"
          /\ idx[j] = 2 /\ open_ports[j] = <<>>

\* C20: the ScanResult of a test_payload call has error_type set exactly
\* when vulnerable is true, response_time None exactly when the request
\* raised, in which case vulnerable is false, and the payload and parameter
\* the call was given.
C20_ScanResultWellFormed ==
    (prog = "detect" /\ scan_result /= <<>>) =>
        LET r == scan_result[1] IN
            /\ (r.error_type /= None) <=> r.vulnerable
            /\ (r.response_time = None) <=> response.exc
            /\ response.exc => ~r.vulnerable
            /\ r.payload = test_cases[1].payload
            /\ r.parameter = test_cases[1].param_name

\* C20 witness: the request for parameter q raised, although the body it
\* would have given carries a signature
C20_Witness ==
    /\ prog = "detect" /\ scan_result /= <<>>
    /\ response.exc
    /\ MatchingEngines(response.text) /= {}
    /\ test_cases[1].param_name = "q"
    /\ test_cases[1].payload = PAYLOADS[2]
    /\ scan_result[1] = [vulnerable |-> FALSE, payload |-> PAYLOADS[2],
                         parameter |-> "q", error_type |-> None,
                         response_time |-> None]
====
